---- MODULE Spec2Model ----
(***************************************************************************)
(* Model of the mlflow-sagemaker deployment scripts.                       *)
(*                                                                         *)
(*   src/mlops.py        create_repository, check_sagemaker_endpoint_status,*)
(*                       get_mlflow_model_details, deploy_model,           *)
(*                       destroy_model, get_test_data,                     *)
(*                       write_prediction_output and the __main__ script   *)
(*   src/snowflakeops.py execute_query                                     *)
(*                                                                         *)
(* Every vendor SDK call is one step whose outcome (a result or a raised   *)
(* error) is chosen nondeterministically; the order of the steps, the      *)
(* guards and what is passed to each call are those of the source.  The    *)
(* variable calls is the log of the calls issued so far.                   *)
(***************************************************************************)
EXTENDS Naturals, Sequences, FiniteSets

VARIABLES
    prog,           \* entry point being run
    pc,             \* position in the code
    err,            \* error that reached the caller ("none" while there is none)
    calls,          \* log of external calls issued, in order
    defaultRegion,  \* value of get_region() bound as default argument at import
    app,            \* app_name
    regionArg,      \* region argument of deploy_model / destroy_model
    mode,           \* sagemaker_model_mode
    modeSame,       \* whether mode is the very object mfs.DEPLOYMENT_MODE_CREATE
    endpoint,       \* hosting service: region -> app -> status
    startStatus,    \* endpoint[regionArg][app] when the run started
    registry,       \* container registry: region -> set of repository names
    repoName,       \* repository_name
    repoRegion,     \* region_name argument of create_repository
    callNo,         \* which of the two successive create_repository calls runs
    firstErr,       \* outcome of the first create_repository call
    run,            \* the tracking server's record of run_id
    runInfo,        \* run_info built by get_mlflow_model_details
    envOK,          \* whether all five environment variables are set
    status,         \* local variable status of the running function
    recheck,        \* the string main computes at line 303
    inputFile,      \* INPUT_TEST_FILE as [dir, base]
    fileData,       \* content of that file, or NoFile
    inputJson,      \* input_json of main
    prediction,     \* prediction of main
    written,        \* files written by the program: set of [path, text]
    conn,           \* connection argument of execute_query
    sql,            \* sql_query argument of execute_query
    cursor,         \* local variable cursor of execute_query
    opened,         \* cursors opened by connection.cursor()
    closed,         \* cursor.close() calls
    pending,        \* error in flight inside execute_query's try statement
    qresult         \* value execute_query returned

vars == << prog, pc, err, calls, defaultRegion, app, regionArg, mode, modeSame,
           endpoint, startStatus, registry, repoName, repoRegion, callNo,
           firstErr, run, runInfo, envOK, status, recheck, inputFile, fileData,
           inputJson, prediction, written, conn, sql, cursor, opened, closed,
           pending, qresult >>

mainVars  == << envOK, recheck, inputFile, fileData, inputJson, prediction, written >>
repoVars  == << registry, repoName, repoRegion, callNo, firstErr >>
queryVars == << conn, sql, cursor, opened, closed, pending, qresult >>
argVars   == << prog, defaultRegion, app, regionArg, mode, modeSame, startStatus, run >>

----------------------------------------------------------------------------
(* Bounds and input sets *)

MaxTagLen == 9

Regions   == {"us-east-1", "eu-west-1"}
Apps      == {"demo", "other"}
RepoNames == {"mlflow-pyfunc", "custom-repo"}
TagChars  == {"a", "f"}

\* Python's None, kept apart from the string "None" that str(None) yields.
NoneVal == "<None>"
\* A path that os.path.exists() reports as missing.
NoFile  == "<no file>"
\* A local name that was never bound.
Unbound == "<unbound>"

\* EndpointStatus values of the hosting service's describe_endpoint.
EndpointStatuses ==
    {"OutOfService", "Creating", "Updating", "SystemUpdating", "RollingBack",
     "InService", "Deleting", "Failed", "UpdateRollbackFailed"}

InitStatuses == {NoneVal, "InService", "Creating"}

DEPLOYMENT_MODE_CREATE  == "create"
DEPLOYMENT_MODE_REPLACE == "replace"
DEPLOYMENT_MODE_ADD     == "add"
Modes == {DEPLOYMENT_MODE_CREATE, DEPLOYMENT_MODE_REPLACE, DEPLOYMENT_MODE_ADD}

RequiredMetrics == {"accuracy score", "average precision", "f1-score"}
GitTag == "mlflow.source.git.commit"
TagKeys == {GitTag, "mlflow.user"}

----------------------------------------------------------------------------
(* Python helpers *)

Min(a, b) == IF a < b THEN a ELSE b

\* bool(v) for None and strings.
Truthy(v) == v # NoneVal /\ v # ""

\* The characters of the strings the status test reads.
Chars(s) ==
    CASE s = "InService"            -> <<"I","n","S","e","r","v","i","c","e">>
      [] s = "OutOfService"         -> <<"O","u","t","O","f","S","e","r","v","i","c","e">>
      [] s = "Creating"             -> <<"C","r","e","a","t","i","n","g">>
      [] s = "Updating"             -> <<"U","p","d","a","t","i","n","g">>
      [] s = "SystemUpdating"       -> <<"S","y","s","t","e","m","U","p","d","a","t","i","n","g">>
      [] s = "RollingBack"          -> <<"R","o","l","l","i","n","g","B","a","c","k">>
      [] s = "Deleting"             -> <<"D","e","l","e","t","i","n","g">>
      [] s = "Failed"               -> <<"F","a","i","l","e","d">>
      [] s = "UpdateRollbackFailed" -> <<"U","p","d","a","t","e","R","o","l","l","b","a","c","k",
                                         "F","a","i","l","e","d">>
      [] s = "None"                 -> <<"N","o","n","e">>

\* needle in hay, for Python strings.
Contains(needle, hay) ==
    \E i \in 1..(Len(hay) + 1) :
        /\ i + Len(needle) - 1 <= Len(hay)
        /\ SubSeq(hay, i, i + Len(needle) - 1) = needle

\* str(status) at line 303.
PyStr(v) == IF v = NoneVal THEN "None" ELSE v

\* s[:n]
Prefix(s, n) == SubSeq(s, 1, Min(n, Len(s)))

Call(op, region, name) == [op |-> op, region |-> region, name |-> name]

Issued(op) == {i \in DOMAIN calls : calls[i].op = op}
Count(op)  == Cardinality(Issued(op))

----------------------------------------------------------------------------
(* Outcomes of the vendor calls *)

Raise(e) == pc' = "raised" /\ err' = e

Terminated == pc \in {"done", "raised"}

\* What check_sagemaker_endpoint_status(app_name=a) can do.  No caller passes
\* region, so the client is built for the default bound at import.  A
\* "Could not find endpoint" error becomes None, any other ClientError is
\* re-raised, and an exception that carries no .response raises
\* AttributeError inside the handler.
check_sagemaker_endpoint_status(a) ==
    {[raised |-> "none", value |-> endpoint[defaultRegion][a]]}
    \cup {[raised |-> e, value |-> NoneVal] : e \in {"ClientError", "AttributeError"}}

\* status and sagemaker_model_mode is mfs.DEPLOYMENT_MODE_CREATE
DeployRefuses(s, same) == Truthy(s) /\ same

\* A check that takes only a serving endpoint for an existing one.
MainEndpointPresentServingOnly(s) == s = "InService"

\* if status: (the script's own check before deploy)
MainEndpointPresent(s) == Truthy(s)

\* if status: (destroy_model)
DestroyPresent(s) == Truthy(s)

\* A test for the shorter substring, which OutOfService also holds.
IsInServiceLoose(s) == Contains(<<"S","e","r","v","i","c","e">>, Chars(s))

\* "InService" in status
IsInService(s) == Contains(Chars("InService"), Chars(s))

\* The KeyError get_mlflow_model_details raises on the run's data, if any:
\* the three metric lookups come first, then the tag lookup.
RunDataError(r) ==
    IF ~(RequiredMetrics \subseteq DOMAIN r.metrics) THEN "KeyError:metric"
    ELSE IF GitTag \notin DOMAIN r.tags THEN "KeyError:tag"
    ELSE "none"

\* run_info["git_sha"]: the tag, cut to 8 characters when it is non-empty.
GitSha(tag) == IF Len(tag) > 0 THEN Prefix(tag, 8) ELSE tag

\* run_info as get_mlflow_model_details has filled it before it looks the
\* experiment up (the formatted start and end times are left out).
RunInfoOf(r) ==
    [artifact_uri |-> r.artifact_uri,
     metrics      |-> [m \in RequiredMetrics |-> r.metrics[m]],
     git_sha      |-> GitSha(r.tags[GitTag])]

NoRunInfo == [artifact_uri |-> "", metrics |-> [m \in RequiredMetrics |-> 0], git_sha |-> << >>]

\* Statuses describe_endpoint may report once mfs.deploy has returned.
PostDeployStatuses == EndpointStatuses

----------------------------------------------------------------------------
(* get_mlflow_model_details *)

\* Where control goes when get_mlflow_model_details returns.
AfterFetch == IF prog = "fetch" THEN "done" ELSE "d_ecr"

FetchGetRun ==
    /\ pc = "f_get_run"
    /\ calls' = Append(calls, Call("mlflow.get_run", "-", "run"))
    /\ \E fault \in {"none", "MlflowException"} :
          IF fault # "none" THEN Raise(fault)
          ELSE pc' = "f_details" /\ err' = err
    /\ UNCHANGED << argVars, repoVars, queryVars, mainVars, endpoint, runInfo, status >>

FetchDetails ==
    /\ pc = "f_details"
    /\ IF RunDataError(run) # "none"
       THEN Raise(RunDataError(run)) /\ runInfo' = runInfo
       ELSE pc' = "f_get_experiment" /\ err' = err /\ runInfo' = RunInfoOf(run)
    /\ UNCHANGED << argVars, repoVars, queryVars, mainVars, endpoint, status, calls >>

FetchGetExperiment ==
    /\ pc = "f_get_experiment"
    /\ calls' = Append(calls, Call("mlflow.get_experiment", "-", "run"))
    /\ \E fault \in {"none", "MlflowException"} :
          IF fault # "none" THEN Raise(fault)
          ELSE pc' = AfterFetch /\ err' = err
    /\ UNCHANGED << argVars, repoVars, queryVars, mainVars, endpoint, runInfo, status >>

----------------------------------------------------------------------------
(* deploy_model *)

AfterDeploy == IF prog = "main" THEN "m_recheck" ELSE "done"

DeployCheck ==
    /\ pc = "d_check"
    /\ calls' = Append(calls, Call("sagemaker.describe_endpoint", defaultRegion, app))
    /\ \E r \in check_sagemaker_endpoint_status(app) :
          IF r.raised # "none" THEN Raise(r.raised) /\ status' = status
          ELSE /\ status' = r.value
               /\ IF DeployRefuses(r.value, modeSame)
                  THEN Raise("ValueError:deploy_exists")
                  ELSE pc' = "f_get_run" /\ err' = err
    /\ UNCHANGED << argVars, repoVars, queryVars, mainVars, endpoint, runInfo >>

\* get_ecr_url and get_sagemager_execution_roler_arn each ask for the account
\* id; get_account_id swallows a failure and returns None.
DeployEcrUrl ==
    /\ pc = "d_ecr"
    /\ calls' = Append(calls, Call("sts.get_caller_identity", "-", "ecr_url"))
    /\ pc' = "d_role"
    /\ UNCHANGED << argVars, repoVars, queryVars, mainVars, endpoint, runInfo, status, err >>

DeployRoleArn ==
    /\ pc = "d_role"
    /\ calls' = Append(calls, Call("sts.get_caller_identity", "-", "role_arn"))
    /\ pc' = "d_deploy"
    /\ UNCHANGED << argVars, repoVars, queryVars, mainVars, endpoint, runInfo, status, err >>

\* mfs.deploy(app_name, region_name=region, mode=sagemaker_model_mode, ...):
\* the hosting service's create/update call, made in the region argument.  In
\* create mode the SDK refuses an endpoint that exists there.
DeployIssue ==
    /\ pc = "d_deploy"
    /\ calls' = Append(calls, Call("mfs.deploy", regionArg, app))
    /\ \E fault \in {"none", "MlflowException"} :
          IF fault # "none" \/ (mode = DEPLOYMENT_MODE_CREATE /\ endpoint[regionArg][app] # NoneVal)
          THEN Raise("MlflowException") /\ endpoint' = endpoint
          ELSE /\ \E s \in PostDeployStatuses :
                     endpoint' = [endpoint EXCEPT ![regionArg][app] = s]
               /\ pc' = AfterDeploy
               /\ err' = err
    /\ UNCHANGED << argVars, repoVars, queryVars, mainVars, runInfo, status >>

----------------------------------------------------------------------------
(* destroy_model *)

DestroyCheck ==
    /\ pc = "x_check"
    /\ calls' = Append(calls, Call("sagemaker.describe_endpoint", defaultRegion, app))
    /\ \E r \in check_sagemaker_endpoint_status(app) :
          IF r.raised # "none" THEN Raise(r.raised) /\ status' = status
          ELSE /\ status' = r.value
               /\ IF DestroyPresent(r.value)
                  THEN pc' = "x_delete" /\ err' = err
                  ELSE Raise("ValueError:not_present")
    /\ UNCHANGED << argVars, repoVars, queryVars, mainVars, endpoint, runInfo >>

\* mfs.delete(app_name, region_name=region, archive=False)
DestroyDelete ==
    /\ pc = "x_delete"
    /\ calls' = Append(calls, Call("mfs.delete", regionArg, app))
    /\ \E fault \in {"none", "MlflowException"} :
          IF fault # "none" \/ endpoint[regionArg][app] = NoneVal
          THEN Raise("MlflowException") /\ endpoint' = endpoint
          ELSE /\ endpoint' = [endpoint EXCEPT ![regionArg][app] = NoneVal]
               /\ pc' = "done"
               /\ err' = err
    /\ UNCHANGED << argVars, repoVars, queryVars, mainVars, runInfo, status >>

----------------------------------------------------------------------------
(* create_repository *)

\* A lookup made with a client for the session's region, not region_name.
RepositoryFoundInDefaultRegion(reg, region, name) == name \in reg[defaultRegion]

\* describe_repositories(repositoryNames=[name]) finds the repository.
RepositoryFound(reg, region, name) == name \in reg[region]

\* create_repository returns (e = "none") or raises e.  Two successive calls
\* are run when it is the entry point.
RepoReturn(e) ==
    IF prog = "repo" /\ callNo = 1
    THEN /\ callNo' = 2
         /\ firstErr' = e
         /\ pc' = "r_describe"
         /\ err' = err
    ELSE /\ UNCHANGED << callNo, firstErr >>
         /\ IF e # "none" THEN Raise(e)
            ELSE /\ pc' = IF prog = "main" THEN "m_build" ELSE "done"
                 /\ err' = err

RepoDescribe ==
    /\ pc = "r_describe"
    /\ calls' = Append(calls, Call("ecr.describe_repositories", repoRegion, repoName))
    /\ \E fault \in {"none", "ClientError"} :
          IF fault # "none" THEN RepoReturn(fault)
          ELSE IF RepositoryFound(registry, repoRegion, repoName) THEN RepoReturn("none")
          ELSE pc' = "r_create" /\ UNCHANGED << err, callNo, firstErr >>
    /\ UNCHANGED << argVars, queryVars, mainVars, endpoint, runInfo, status,
                    registry, repoName, repoRegion >>

RepoCreate ==
    /\ pc = "r_create"
    /\ calls' = Append(calls, Call("ecr.create_repository", repoRegion, repoName))
    /\ \E fault \in {"none", "ClientError"} :
          IF fault # "none" THEN RepoReturn(fault) /\ registry' = registry
          ELSE IF repoName \in registry[repoRegion]
          THEN RepoReturn("RepositoryAlreadyExistsException") /\ registry' = registry
          ELSE /\ registry' = [registry EXCEPT ![repoRegion] = @ \cup {repoName}]
               /\ RepoReturn("none")
    /\ UNCHANGED << argVars, queryVars, mainVars, endpoint, runInfo, status,
                    repoName, repoRegion >>

----------------------------------------------------------------------------
(* The __main__ script *)

Dirs         == {"", "/tmp", "/gone"}
ExistingDirs == {"/tmp"}
Payloads     == {"", "{\"columns\": [\"x\"], \"data\": [[1]]}"}
Predictions  == {<< >>, <<1>>, <<1, 0>>}

NoPrediction == [bound |-> FALSE, value |-> << >>]

\* os.path.dirname, os.path.join and os.path.exists on [dir, base] paths; the
\* directory part of a bare file name is "", which does not exist.
Dirname(p)    == p.dir
Join(d, b)    == [dir |-> d, base |-> b]
DirExistsUnchecked(d) == TRUE
DirExists(d)  == d \in ExistingDirs

\* f"inference-{app_name}.pred"
PredName(a) == "inference-" \o a \o ".pred"

\* str(prediction) of a decoded JSON list of numbers.
Repr(p) ==
    CASE p = << >>    -> "[]"
      [] p = <<1>>    -> "[1]"
      [] p = <<1, 0>> -> "[1, 0]"

\* get_test_data(file_name): None for a missing file, else its content.
get_test_data(data) == IF data = NoFile THEN NoneVal ELSE data

\* create_mlflow_base_docker_image: a non-zero exit status reaches
\* print(msg), and msg was never assigned (the message went to mgs).
MainBuild ==
    /\ pc = "m_build"
    /\ calls' = Append(calls, Call("shell.build", "-", "mlflow-pyfunc"))
    /\ \E rc \in {0, 1} :
          IF rc # 0 THEN Raise("NameError") ELSE pc' = "m_push" /\ err' = err
    /\ UNCHANGED << argVars, repoVars, queryVars, mainVars, endpoint, runInfo, status >>

MainPush ==
    /\ pc = "m_push"
    /\ calls' = Append(calls, Call("mfs.push_image_to_ecr", "-", "mlflow-pyfunc"))
    /\ \E fault \in {"none", "MlflowException"} :
          IF fault # "none" THEN Raise(fault) ELSE pc' = "m_env" /\ err' = err
    /\ UNCHANGED << argVars, repoVars, queryVars, mainVars, endpoint, runInfo, status >>

MainEnv ==
    /\ pc = "m_env"
    /\ IF envOK THEN pc' = "m_check" /\ err' = err ELSE Raise("KeyError:env")
    /\ UNCHANGED << argVars, repoVars, queryVars, mainVars, endpoint, runInfo, status, calls >>

MainCheck ==
    /\ pc = "m_check"
    /\ calls' = Append(calls, Call("sagemaker.describe_endpoint", defaultRegion, app))
    /\ \E r \in check_sagemaker_endpoint_status(app) :
          IF r.raised # "none" THEN Raise(r.raised) /\ status' = status
          ELSE /\ status' = r.value
               /\ IF MainEndpointPresent(r.value)
                  THEN Raise("ValueError:main_exists")
                  ELSE pc' = "d_check" /\ err' = err
    /\ UNCHANGED << argVars, repoVars, queryVars, mainVars, endpoint, runInfo >>

MainRecheck ==
    /\ pc = "m_recheck"
    /\ calls' = Append(calls, Call("sagemaker.describe_endpoint", defaultRegion, app))
    /\ \E r \in check_sagemaker_endpoint_status(app) :
          IF r.raised # "none" THEN Raise(r.raised) /\ UNCHANGED << status, recheck >>
          ELSE /\ status' = PyStr(r.value)
               /\ recheck' = PyStr(r.value)
               /\ IF IsInService(PyStr(r.value))
                  THEN pc' = "m_read" /\ err' = err
                  ELSE Raise("ValueError:not_in_service")
    /\ UNCHANGED << argVars, repoVars, queryVars, endpoint, runInfo,
                    envOK, inputFile, fileData, inputJson, prediction, written >>

MainReadTestData ==
    /\ pc = "m_read"
    /\ inputJson' = get_test_data(fileData)
    /\ pc' = IF Truthy(get_test_data(fileData)) THEN "m_infer" ELSE "x_check"
    /\ UNCHANGED << argVars, repoVars, queryVars, endpoint, runInfo, status, calls, err,
                    envOK, recheck, inputFile, fileData, prediction, written >>

\* inferance_sagemaker_endpoint: invoke_endpoint, then decode the body as
\* ASCII and parse it as JSON.
MainInfer ==
    /\ pc = "m_infer"
    /\ calls' = Append(calls, Call("runtime.invoke_endpoint", defaultRegion, app))
    /\ \E outcome \in {"ok", "ClientError", "DecodeError"} :
          IF outcome # "ok" THEN Raise(outcome) /\ prediction' = prediction
          ELSE /\ \E p \in Predictions : prediction' = [bound |-> TRUE, value |-> p]
               /\ pc' = "m_write"
               /\ err' = err
    /\ UNCHANGED << argVars, repoVars, queryVars, endpoint, runInfo, status,
                    envOK, recheck, inputFile, fileData, inputJson, written >>

\* pred_file = os.path.join(os.path.dirname(input_test_file), name), then
\* write_prediction_output(pred_file, prediction).
MainWrite ==
    /\ pc = "m_write"
    /\ LET pred_file == Join(Dirname(inputFile), PredName(app))
           base_dir  == Dirname(pred_file)
       IN  IF DirExists(base_dir)
           THEN /\ written' = written \cup {[path |-> pred_file, text |-> Repr(prediction.value)]}
                /\ calls' = Append(calls, Call("file.write", base_dir, pred_file.base))
           ELSE UNCHANGED << written, calls >>
    /\ pc' = "x_check"
    /\ UNCHANGED << argVars, repoVars, queryVars, endpoint, runInfo, status, err,
                    envOK, recheck, inputFile, fileData, inputJson, prediction >>

----------------------------------------------------------------------------
(* execute_query (src/snowflakeops.py) *)

Sqls    == {"SELECT 1", "SELECT * FROM t", "CREATE TABLE t (x INT)", "USE ROLE r", "SELEC"}
RowSets == {<< >>, <<"r1">>, <<"r1", "r2">>}
NoRows  == <<"<None>">>

\* if connection:
QueryStart ==
    /\ pc = "q_start"
    /\ pc' = IF Truthy(conn) THEN "q_cursor" ELSE "done"
    /\ UNCHANGED << argVars, repoVars, mainVars, endpoint, runInfo, status, calls, err,
                    queryVars >>

\* cursor = connection.cursor(): raises (cursor stays unbound), returns a
\* falsy value, or returns a cursor.
QueryCursor ==
    /\ pc = "q_cursor"
    /\ calls' = Append(calls, Call("connection.cursor", "-", sql))
    /\ \E outcome \in {"raises", "falsy", "cursor"} :
          CASE outcome = "raises" ->
                  /\ pending' = "CursorError"
                  /\ pc' = "q_except"
                  /\ UNCHANGED << cursor, opened >>
            [] outcome = "falsy" ->
                  /\ cursor' = NoneVal
                  /\ pc' = "q_finally"
                  /\ UNCHANGED << pending, opened >>
            [] outcome = "cursor" ->
                  /\ cursor' = "cursor"
                  /\ opened' = opened + 1
                  /\ pc' = "q_execute"
                  /\ UNCHANGED pending
    /\ UNCHANGED << argVars, repoVars, mainVars, endpoint, runInfo, status, err,
                    conn, sql, closed, qresult >>

QueryExecute ==
    /\ pc = "q_execute"
    /\ calls' = Append(calls, Call("cursor.execute", "-", sql))
    /\ \E fault \in {"none", "ExecuteError"} :
          IF fault # "none" THEN pending' = fault /\ pc' = "q_except"
          ELSE pending' = pending /\ pc' = "q_fetch"
    /\ UNCHANGED << argVars, repoVars, mainVars, endpoint, runInfo, status, err,
                    conn, sql, cursor, opened, closed, qresult >>

\* results = cursor.fetchall(); return results -- or except: pass
QueryFetch ==
    /\ pc = "q_fetch"
    /\ calls' = Append(calls, Call("cursor.fetchall", "-", sql))
    /\ \/ \E rows \in RowSets : qresult' = rows
       \/ qresult' = qresult
    /\ pc' = "q_finally"
    /\ UNCHANGED << argVars, repoVars, mainVars, endpoint, runInfo, status, err,
                    conn, sql, cursor, opened, closed, pending >>

\* except Exception as e: print(...); raise e
QueryExcept ==
    /\ pc = "q_except"
    /\ pc' = "q_finally"
    /\ UNCHANGED << argVars, repoVars, mainVars, endpoint, runInfo, status, calls, err,
                    queryVars >>

\* finally: if cursor: cursor.close() -- reading cursor when connection.cursor()
\* raised is an UnboundLocalError, which replaces the error in flight.
QueryFinally ==
    /\ pc = "q_finally"
    /\ IF cursor = Unbound
       THEN Raise("UnboundLocalError") /\ UNCHANGED << closed, calls >>
       ELSE IF Truthy(cursor)
       THEN /\ closed' = closed + 1
            /\ calls' = Append(calls, Call("cursor.close", "-", sql))
            /\ \E fault \in {"none", "CloseError"} :
                  IF fault # "none" THEN Raise(fault)
                  ELSE IF pending # "none" THEN Raise(pending)
                  ELSE pc' = "done" /\ err' = err
       ELSE /\ UNCHANGED << closed, calls >>
            /\ IF pending # "none" THEN Raise(pending) ELSE pc' = "done" /\ err' = err
    /\ UNCHANGED << argVars, repoVars, mainVars, endpoint, runInfo, status,
                    conn, sql, cursor, opened, pending, qresult >>

----------------------------------------------------------------------------
(* Initial states *)

TagValues == UNION {[1..n -> TagChars] : n \in 0..MaxTagLen}

MetricMaps == UNION {[D -> {1}] : D \in SUBSET RequiredMetrics}

AllMetrics == [m \in RequiredMetrics |-> 1]

Long9  == <<"a","f","a","f","a","f","a","f","a">>
Short3 == <<"a","f","f">>

\* Tag maps: with or without the commit tag, with or without another tag.
TagMaps(values) ==
    {[k \in {GitTag} |-> v] : v \in values}
    \cup {[k \in TagKeys |-> IF k = GitTag THEN v ELSE <<"a">>] : v \in values}
    \cup {[k \in {"mlflow.user"} |-> <<"a">>], [k \in {} |-> <<"a">>]}

Runs(metricMaps, tagMaps) ==
    {[artifact_uri |-> "s3://bucket/1/run/artifacts", metrics |-> m, tags |-> t] :
        m \in metricMaps, t \in tagMaps}

\* The runs drawn for the scripts that deploy.
DeployRuns ==
    Runs({AllMetrics}, {[k \in {GitTag} |-> Long9], [k \in {GitTag} |-> Short3],
                        [k \in {"mlflow.user"} |-> <<"a">>]})
    \cup Runs({[m \in {"f1-score"} |-> 1]}, {[k \in {GitTag} |-> Long9]})

NoEndpoints == [r \in Regions |-> [a \in Apps |-> NoneVal]]
NoRun == [artifact_uri |-> "", metrics |-> AllMetrics, tags |-> [k \in {GitTag} |-> << >>]]

CommonIdle ==
    /\ err = "none"
    /\ calls = << >>
    /\ runInfo = NoRunInfo
    /\ status = NoneVal

MainIdle ==
    /\ envOK = TRUE
    /\ recheck = Unbound
    /\ inputFile = [dir |-> "/tmp", base |-> "in.json"]
    /\ fileData = NoFile
    /\ inputJson = NoneVal
    /\ prediction = NoPrediction
    /\ written = {}

RepoIdle ==
    /\ registry = [r \in Regions |-> {}]
    /\ repoName = "mlflow-pyfunc"
    /\ repoRegion = defaultRegion
    /\ callNo = 1
    /\ firstErr = "none"

QueryIdle ==
    /\ conn = NoneVal
    /\ sql = "SELECT 1"
    /\ cursor = Unbound
    /\ opened = 0
    /\ closed = 0
    /\ pending = "none"
    /\ qresult = NoRows

DeployIdle ==
    /\ app = "demo"
    /\ regionArg = defaultRegion
    /\ mode = DEPLOYMENT_MODE_CREATE
    /\ modeSame = TRUE
    /\ endpoint = NoEndpoints
    /\ startStatus = NoneVal
    /\ run = NoRun

\* python mlops.py: every function is called with its default region, and
\* deploy_model with its default mode.
InitMain ==
    /\ prog = "main"
    /\ pc = "r_describe"
    /\ CommonIdle /\ QueryIdle
    /\ defaultRegion \in Regions
    /\ app \in Apps
    /\ regionArg = defaultRegion
    /\ mode = DEPLOYMENT_MODE_CREATE
    /\ modeSame = TRUE
    /\ \E f \in [Apps -> InitStatuses] :
          endpoint = [r \in Regions |-> IF r = defaultRegion THEN f ELSE NoEndpoints[r]]
    /\ startStatus = endpoint[regionArg][app]
    /\ run \in DeployRuns
    /\ repoName = "mlflow-pyfunc"
    /\ repoRegion = defaultRegion
    /\ \E present \in BOOLEAN :
          registry = [r \in Regions |-> IF present /\ r = defaultRegion THEN {repoName} ELSE {}]
    /\ callNo = 1
    /\ firstErr = "none"
    /\ envOK \in BOOLEAN
    /\ recheck = Unbound
    /\ inputFile \in {[dir |-> d, base |-> "in.json"] : d \in Dirs}
    /\ fileData \in IF inputFile.dir = "/gone" THEN {NoFile} ELSE {NoFile} \cup Payloads
    /\ inputJson = NoneVal
    /\ prediction = NoPrediction
    /\ written = {}

\* deploy_model(app_name, run_id, bucket, tracking_uri, region=..., sagemaker_model_mode=...)
InitDeploy ==
    /\ prog = "deploy"
    /\ pc = "d_check"
    /\ CommonIdle /\ QueryIdle /\ MainIdle
    /\ defaultRegion \in Regions
    /\ RepoIdle
    /\ app \in Apps
    /\ regionArg \in Regions
    /\ mode \in Modes
    /\ modeSame \in IF mode = DEPLOYMENT_MODE_CREATE THEN BOOLEAN ELSE {FALSE}
    /\ endpoint \in [Regions -> [Apps -> InitStatuses]]
    /\ startStatus = endpoint[regionArg][app]
    /\ run \in DeployRuns

\* destroy_model(app_name, region=...)
InitDestroy ==
    /\ prog = "destroy"
    /\ pc = "x_check"
    /\ CommonIdle /\ QueryIdle /\ MainIdle
    /\ defaultRegion \in Regions
    /\ RepoIdle
    /\ app \in Apps
    /\ regionArg \in Regions
    /\ mode = DEPLOYMENT_MODE_CREATE
    /\ modeSame = TRUE
    /\ endpoint \in [Regions -> [Apps -> InitStatuses]]
    /\ startStatus = endpoint[regionArg][app]
    /\ run = NoRun

\* create_repository(repository_name, region_name), twice in succession
InitRepo ==
    /\ prog = "repo"
    /\ pc = "r_describe"
    /\ CommonIdle /\ QueryIdle /\ MainIdle
    /\ defaultRegion \in Regions
    /\ DeployIdle
    /\ repoName \in RepoNames
    /\ repoRegion \in Regions
    /\ registry \in [Regions -> SUBSET RepoNames]
    /\ callNo = 1
    /\ firstErr = "none"

\* get_mlflow_model_details(run_id, tracking_uri)
InitFetch ==
    /\ prog = "fetch"
    /\ pc = "f_get_run"
    /\ CommonIdle /\ QueryIdle /\ MainIdle
    /\ defaultRegion = "us-east-1"
    /\ RepoIdle
    /\ app = "demo"
    /\ regionArg = defaultRegion
    /\ mode = DEPLOYMENT_MODE_CREATE
    /\ modeSame = TRUE
    /\ endpoint = NoEndpoints
    /\ startStatus = NoneVal
    /\ run \in Runs(MetricMaps, TagMaps(TagValues))

\* execute_query(connection, sql_query)
InitQuery ==
    /\ prog = "query"
    /\ pc = "q_start"
    /\ CommonIdle /\ MainIdle
    /\ defaultRegion = "us-east-1"
    /\ RepoIdle /\ DeployIdle
    /\ conn \in {NoneVal, "connection"}
    /\ sql \in Sqls
    /\ cursor = Unbound
    /\ opened = 0
    /\ closed = 0
    /\ pending = "none"
    /\ qresult = NoRows

----------------------------------------------------------------------------
(* Specifications, one per entry point *)

NextFetch == FetchGetRun \/ FetchDetails \/ FetchGetExperiment

NextDeploy ==
    \/ DeployCheck \/ FetchGetRun \/ FetchDetails \/ FetchGetExperiment
    \/ DeployEcrUrl \/ DeployRoleArn \/ DeployIssue

NextDestroy == DestroyCheck \/ DestroyDelete

NextRepo == RepoDescribe \/ RepoCreate

NextQuery ==
    QueryStart \/ QueryCursor \/ QueryExecute \/ QueryFetch \/ QueryExcept \/ QueryFinally

NextMain ==
    \/ RepoDescribe \/ RepoCreate \/ MainBuild \/ MainPush \/ MainEnv \/ MainCheck
    \/ DeployCheck \/ FetchGetRun \/ FetchDetails \/ FetchGetExperiment
    \/ DeployEcrUrl \/ DeployRoleArn \/ DeployIssue
    \/ MainRecheck \/ MainReadTestData \/ MainInfer \/ MainWrite
    \/ DestroyCheck \/ DestroyDelete

SpecMain    == InitMain /\ [][NextMain]_vars
SpecDeploy  == InitDeploy /\ [][NextDeploy]_vars
SpecDestroy == InitDestroy /\ [][NextDestroy]_vars
SpecRepo    == InitRepo /\ [][NextRepo]_vars
SpecFetch   == InitFetch /\ [][NextFetch]_vars
SpecQuery   == InitQuery /\ [][NextQuery]_vars

Init == InitMain \/ InitDeploy \/ InitDestroy \/ InitRepo \/ InitFetch \/ InitQuery
Next == NextMain \/ NextQuery
Spec == Init /\ [][Next]_vars

----------------------------------------------------------------------------
(* Claims *)

ServiceFaults == {"ClientError", "AttributeError", "MlflowException", "DecodeError"}

OnlyOp(op) == \A i \in DOMAIN calls : calls[i].op = op

\* Some call was issued after mfs.deploy, so mfs.deploy returned.
DeployReturned == \E i \in Issued("mfs.deploy") : i < Len(calls)

\* C1: deploy_model called in create mode (mode being the SDK's constant)
\* while the endpoint exists in the region argument raises before it fetches
\* run metadata or issues mfs.deploy: the status lookup is its only call and
\* the endpoint is left as it was.
C1_CreateRefusesExistingEndpoint ==
    (prog = "deploy" /\ mode = DEPLOYMENT_MODE_CREATE /\ modeSame /\ startStatus # NoneVal)
    => /\ pc \in {"d_check", "raised"}
       /\ OnlyOp("sagemaker.describe_endpoint")
       /\ endpoint[regionArg][app] = startStatus

\* C2: destroy_model raises and issues no delete when no endpoint of that
\* name exists in the region argument, and issues exactly one delete when one
\* exists (and the status lookup did not fail).
C2_DestroyGuardsOnTargetRegion ==
    prog = "destroy"
    => /\ startStatus = NoneVal
            => Count("mfs.delete") = 0 /\ (Terminated => pc = "raised")
       /\ (startStatus # NoneVal /\ Terminated /\ err \notin {"ClientError", "AttributeError"})
            => Count("mfs.delete") = 1

\* C3 as stated: when the endpoint exists at start, no container build, image
\* push or deploy call is ever issued.
C3_NoBuildPushDeployWhenEndpointExists ==
    (prog = "main" /\ startStatus # NoneVal)
    => /\ Count("shell.build") = 0
       /\ Count("mfs.push_image_to_ecr") = 0
       /\ Count("mfs.deploy") = 0

\* C3 amended: when the endpoint exists at start, the script never enters
\* deploy_model and ends raised; the repository check, the container build
\* and the image push have all been issued before the status lookup.
C3_RaisesBeforeDeploy ==
    (prog = "main" /\ startStatus # NoneVal)
    => /\ pc \in {"r_describe", "r_create", "m_build", "m_push", "m_env", "m_check", "raised"}
       /\ Count("mfs.deploy") = 0 /\ Count("mlflow.get_run") = 0
       /\ Count("sagemaker.describe_endpoint") <= 1
       /\ \A i \in Issued("sagemaker.describe_endpoint") :
             /\ \E j \in Issued("ecr.describe_repositories") : j < i
             /\ \E j \in Issued("shell.build") : j < i
             /\ \E j \in Issued("mfs.push_image_to_ecr") : j < i
       /\ Terminated => pc = "raised"

C3_Witness ==
    /\ prog = "main" /\ startStatus # NoneVal
    /\ pc = "raised" /\ err = "ValueError:main_exists"
    /\ Count("shell.build") = 1 /\ Count("mfs.push_image_to_ecr") = 1

\* C4: endpoint absent at start, re-check InService, payload file non-empty
\* (so its directory exists), no service call failed: the run ends without
\* error after exactly one inference request, then the write of
\* str(prediction) to inference-<app_name>.pred beside the payload file, then
\* exactly one delete.
C4_HappyPathWritesThenDeletes ==
    (/\ prog = "main" /\ startStatus = NoneVal /\ recheck = "InService"
     /\ fileData # NoFile /\ fileData # ""
     /\ Terminated /\ err \notin ServiceFaults)
    => /\ pc = "done"
       /\ Count("runtime.invoke_endpoint") = 1
       /\ Count("file.write") = 1
       /\ Count("mfs.delete") = 1
       /\ \A i \in Issued("runtime.invoke_endpoint") : \A j \in Issued("file.write") :
             \A k \in Issued("mfs.delete") : i < j /\ j < k
       /\ written = {[path |-> [dir |-> inputFile.dir, base |-> PredName(app)],
                      text |-> Repr(prediction.value)]}

\* C5: once mfs.deploy has returned, a run that ends for any reason other
\* than a failed service call has issued the endpoint delete.
C5_DeleteAfterEveryDeploy ==
    (prog = "main" /\ DeployReturned /\ Terminated /\ err \notin ServiceFaults)
    => Count("mfs.delete") >= 1

\* C6 as stated: after two successive calls with the same name (the first
\* having returned) the registry holds the repository, the create call was
\* issued at most once in total, and the second call did not raise.
C6_SecondCallNeverRaises ==
    (prog = "repo" /\ callNo = 2 /\ firstErr = "none" /\ Terminated)
    => /\ repoName \in registry[repoRegion]
       /\ Count("ecr.create_repository") <= 1
       /\ pc = "done"

\* C6 amended: once a first call has returned normally the registry holds the
\* repository; a second call with the same name then issues the lookup and
\* nothing else, so the registry stays as the first call left it and the
\* create call was issued at most once in total, and the second call raises
\* only when its lookup fails with a service error other than
\* repository-not-found.
C6_IdempotentAfterFirstReturn ==
    (prog = "repo" /\ callNo = 2 /\ firstErr = "none")
    => /\ repoName \in registry[repoRegion]
       /\ pc \in {"r_describe", "done", "raised"}
       /\ Count("ecr.create_repository") <= 1
       /\ Terminated =>
             /\ Count("ecr.describe_repositories") = 2
             /\ calls[Len(calls)].op = "ecr.describe_repositories"
             /\ pc = "raised" => err = "ClientError"

C6_Witness ==
    /\ prog = "repo" /\ callNo = 2 /\ firstErr = "none"
    /\ pc = "done"
    /\ Count("ecr.create_repository") = 1
    /\ Count("ecr.describe_repositories") = 2

NullSha == <<"<None>">>

\* C7: for a run that holds the three required metrics (tracking calls not
\* failing), get_mlflow_model_details returns, and the record's revision tag
\* is the first 8 characters of the commit tag when the tag has 8 or more,
\* the whole tag when it is shorter, and null when the run has no commit tag.
C7_RevisionTagPrefixOrNull ==
    (/\ prog = "fetch" /\ Terminated /\ err # "MlflowException"
     /\ RequiredMetrics \subseteq DOMAIN run.metrics)
    => /\ pc = "done"
       /\ IF GitTag \in DOMAIN run.tags
          THEN LET tag == run.tags[GitTag]
               IN  /\ Len(tag) >= 8 => runInfo.git_sha = SubSeq(tag, 1, 8)
                   /\ Len(tag) < 8 => runInfo.git_sha = tag
          ELSE runInfo.git_sha = NullSha

\* C8: an inference request is issued only right after the one re-check that
\* followed mfs.deploy, and only if that re-check saw InService; when it saw
\* any other status the run has ended with the not-in-service error, with no
\* inference request and no prediction file.  The test itself accepts
\* InService alone among the statuses and the absent endpoint.
C8_InferenceOnlyWhenInService ==
    prog = "main"
    => /\ \A s \in EndpointStatuses \cup {NoneVal} :
             IsInService(PyStr(s)) <=> s = "InService"
       /\ \A i \in Issued("runtime.invoke_endpoint") :
             /\ recheck = "InService"
             /\ i > 2
             /\ calls[i - 1].op = "sagemaker.describe_endpoint"
             /\ calls[i - 2].op = "mfs.deploy"
       /\ (recheck # Unbound /\ recheck # "InService")
             => /\ pc = "raised"
                /\ err = "ValueError:not_in_service"
                /\ Count("runtime.invoke_endpoint") = 0
                /\ Count("file.write") = 0
                /\ written = {}

C8_Witness ==
    /\ prog = "main"
    /\ recheck = "OutOfService"
    /\ pc = "raised"
    /\ err = "ValueError:not_in_service"
    /\ Count("runtime.invoke_endpoint") = 0

\* The payload file is missing or empty.
NoPayload == fileData = NoFile \/ fileData = ""

\* The payload was read and the directory the prediction goes to is missing.
NoOutputDir == ~NoPayload /\ ~(Dirname(inputFile) \in ExistingDirs)

C10_CursorClosedErrorKept ==
    (prog = "query" /\ Terminated)
    => /\ ~Truthy(conn) => pc = "done" /\ opened = 0 /\ qresult = NoRows /\ calls = << >>
       /\ closed = opened
       /\ (pc = "raised" /\ err # "CloseError") => err = pending

====
